---- MODULE Spec2Model ----
(***************************************************************************)
(* Query execution subsystem of the text editor: the QueryPanel            *)
(* orchestrator (React component state, its effects and handlers), the     *)
(* editor store fields it reads, and the two backends (DuckDB, Pyodide)    *)
(* with their module-level singletons.                                     *)
(*                                                                         *)
(* One action is one macrotask of the browser: a user event handler or the *)
(* continuation of an await, followed by the React commit(s) it causes     *)
(* (render + effects), which Commit computes.                              *)
(***************************************************************************)
EXTENDS Integers, Sequences, FiniteSets, TLC

\* ------------------------------------------------------------------ bounds
MaxRuns      == 2   \* handleRunQuery invocations that pass the guard
MaxClock     == 2   \* values Date.now() takes
MaxMounts    == 2   \* times the QueryPanel component is mounted
MaxBookmarks == 1   \* bookmarks saved
MaxRows      == 2   \* rows of the result the viewer is handed
MaxGestures  == 2   \* user gestures (clicks, keys, edits) in a session, Spec
MaxSessionGestures == 4   \* the same, SessionSpec
HistoryCap   == 50  \* slice(0, 50) in addToHistory
JsonRowLimit == 10000   \* slice(0, 10000) in createTempTable
MaxSegments  == 2   \* runs of equal-shaped elements in a JSON array
MaxCalls     == 3   \* calls of executeSQL made one after another

\* ------------------------------------------------------------------ values
Null   == "null"
NoTab  == <<>>     \* activeTabId === null (a path has at least one part)

\* A path is the sequence of its '.'-separated parts.
Files == { <<"a", "csv">>, <<"b", "TXT">>, <<"c", "json">> }

Languages == {"sql", "python"}

ToLowerCase(s) ==
    CASE s = "TXT" -> "txt"
      [] s = "CSV" -> "csv"
      [] OTHER     -> s

\* filePath.split('.').pop()?.toLowerCase() || ''
getFileExtension(filePath) == ToLowerCase(filePath[Len(filePath)])

getDefaultSQLQuery(filePath) ==
    LET extension == getFileExtension(filePath) IN
    CASE extension \in {"csv", "tsv"}    -> "SELECT * FROM 'data.csv' LIMIT 100;"
      [] extension \in {"json", "jsonl"} -> "SELECT * FROM 'data.json';"
      [] extension = "parquet"           -> "SELECT * FROM 'data.parquet' LIMIT 100;"
      [] OTHER                           -> "SELECT * FROM data;"

getDefaultPythonCode(filePath) ==
    LET extension == getFileExtension(filePath) IN
    CASE extension = "json"             -> "# Python script for JSON data"
      [] extension \in {"csv", "tsv"}   -> "# Python script for CSV data"
      [] extension \in {"yaml", "yml"}  -> "# Python script for YAML data"
      [] extension = "xml"              -> "# Python script for XML data"
      [] extension \in {"txt", "log"}   -> "# Python script for text/log files"
      [] OTHER                          -> "# Python script"

\* Texts the user types into the query editor (onChange).
UserQueries == {" ", "SELECT COUNT(*) FROM data"}

\* query.trim()
Trim(q) == IF q \in {"", " "} THEN "" ELSE q

Min(a, b) == IF a <= b THEN a ELSE b

\* ------------------------------------------------------------------ state
VARIABLES
    \* editorStore
    tabs,             \* set of open tabs (a tab's id stands for its path)
    activeTabId,
    queryPanelOpen,
    isZenMode,
    queryLanguage,
    \* window.__pendingQuery
    pendingQuery,
    \* QueryPanel component instance (exists while mounted)
    gen,              \* number of the mounted instance (0: never mounted)
    query,
    results,
    isRunning,
    history,
    bookmarks,
    pyodideLoading,
    keyHandler,       \* state captured by the registered keydown listener
    effectWaiting,    \* the init effect's .then/.catch is pending
    \* handleRunQuery invocations
    runs,             \* those in flight, by number
    nRuns,            \* invocations that passed the guard
    lastResult,       \* the result the latest finished invocation produced
    rejected,         \* names of the awaited calls that have rejected
    \* duckdb.ts module state and the engine
    duckDBConnection, \* 0: null, n: the connection of the n-th worker
    workers,          \* Worker instances created
    tables,           \* temp tables that exist in the engine
    now,              \* the value Date.now() returned last (the clock never goes back)
    dbFailed,         \* a bootstrap of the engine has thrown
    \* pyodide.ts module state
    pyodideInstance,  \* BOOLEAN: non-null
    isLoading,
    loadPromise,      \* "null", "pending", "resolved", "rejected"
    pyBoots,          \* bootstraps started
    \* the session as a user observes it
    succLog,          \* successful runs since the list was last empty, newest first
    atClose,          \* the lists of the instance unmounted last, until the next mount
    gestures,         \* user gestures so far
    \* ResultsViewer component
    viewer,           \* its results prop, its state, and the file it downloaded last
    \* createTempTable on the content of a JSON file
    ingest,           \* the content, and the relation the call left in the engine
    \* the Python interpreter of the Pyodide instance
    interp,           \* its globals and sys.stdout, and what executePython returned last
    \* the DuckDB connection under calls of executeSQL made one after another
    engine,           \* its relations, the clock, and what the last two calls returned
    \* calls of executePython that share the interpreter, and the tabs they save to
    scripting         \* the calls, the interpreter's globals, the tabs' contents

storeVars == <<tabs, activeTabId, queryPanelOpen, isZenMode, queryLanguage, pendingQuery>>
panelVars == <<gen, query, results, isRunning, history, bookmarks, pyodideLoading,
               keyHandler, effectWaiting>>
runVars   == <<runs, nRuns, lastResult, rejected>>
duckVars  == <<duckDBConnection, workers, tables, now, dbFailed>>
pyVars    == <<pyodideInstance, isLoading, loadPromise, pyBoots>>
obsVars   == <<succLog, atClose>>
vars      == <<storeVars, panelVars, runVars, duckVars, pyVars, obsVars, gestures, viewer, ingest, interp, engine, scripting>>

\* App: {queryPanelOpen && !isZenMode && <QueryPanel />}
Mounted(open, zen) == open /\ ~zen

\* isPyodideReady()
isPyodideReady == pyodideInstance

NoRun == [pc |-> "none", gen |-> 0, language |-> "sql", query |-> "", tab |-> NoTab,
          table |-> 0, boot |-> 0]

\* results === null (useState<QueryResult | PythonResult | null>(null))
NoResult == [type |-> "none", success |-> TRUE, error |-> Null, payload |-> {}]

NoLists == [history |-> <<>>, bookmarks |-> <<>>]

\* No ResultsViewer with rows on screen.
NoExport == [csv |-> <<>>, json |-> <<>>, displayed |-> <<>>, format |-> "none"]
NoViewer == [shown |-> FALSE, data |-> <<>>, filterText |-> <<>>, sortColumn |-> "none",
             sortDirection |-> "asc", exported |-> NoExport]

\* No JSON content handed to createTempTable.
NoRelation == [exists |-> FALSE, columns |-> {}, rows |-> <<>>]
NoIngest == [content |-> <<>>, pc |-> "none", relation |-> NoRelation, threw |-> FALSE]

\* The interpreter as loadPyodide leaves it: sys.stdout is the stream of the
\* page (stream 0), no global of the page's code is bound, nothing was run.
Console == 0
Unbound == [bound |-> FALSE, value |-> "None"]
NoStream == [bound |-> FALSE, value |-> -1]
NoReturn == [success |-> FALSE, error |-> Null, result |-> [kind |-> "null", of |-> "None"],
             output |-> FALSE, plot |-> FALSE]
FreshInterpreter ==
    [stdout |-> Console, original_stdout |-> NoStream, output_buffer |-> NoStream,
     result |-> Unbound, calls |-> 0, ran |-> [evaluates |-> "None", raises |-> FALSE],
     returned |-> NoReturn]

\* A connection on which executeSQL has not been called yet.
NoStatement == [verb |-> "none", reads |-> [quoted |-> FALSE, word |-> <<>>]]
NoCall == [query |-> "", success |-> FALSE, rows |-> <<>>, error |-> Null,
           sent |-> NoStatement, table |-> 0]
FreshEngine == [tables |-> {}, now |-> 1, calls |-> 0, previous |-> NoCall, last |-> NoCall]

\* The tabs as opened (content as read from the files, none dirty), a loaded
\* interpreter in which no setup has run, and no call of executePython yet.
Original == [format |-> "file", of |-> "original"]
NoData == [kind |-> "None", of |-> Original]
NoGlobals == [content |-> Original, file_path |-> NoTab, file_ext |-> "", data |-> NoData,
              save |-> 0, buffer |-> <<>>]
NoPyCall == [pc |-> "none", tab |-> NoTab, content |-> Original, seen |-> NoGlobals]
NoSave == [caller |-> 0, arg |-> [type |-> "none", value |-> ""],
           before |-> [f \in Files |-> Original], dirtyBefore |-> {}, invoked |-> <<>>]
NoScripting ==
    [calls |-> [i \in 1..MaxRuns |-> NoPyCall], globals |-> NoGlobals,
     contents |-> [f \in Files |-> Original], dirty |-> {}, lastSave |-> NoSave]

\* useState initial values
InitKeyHandler == [isRunning |-> FALSE, pyodideLoading |-> FALSE]

\* The editor once the files of the session are open (none, or all of Files),
\* the query panel never opened yet.
Init ==
    /\ \/ tabs = {} /\ activeTabId = NoTab
       \/ tabs = Files /\ activeTabId \in Files
    /\ queryPanelOpen = FALSE
    /\ isZenMode = FALSE
    /\ queryLanguage = "sql"
    /\ pendingQuery = Null
    /\ gen = 0
    /\ query = ""
    /\ results = NoResult
    /\ isRunning = FALSE
    /\ history = <<>>
    /\ bookmarks = <<>>
    /\ pyodideLoading = FALSE
    /\ keyHandler = InitKeyHandler
    /\ effectWaiting = FALSE
    /\ runs = [i \in 1..MaxRuns |-> NoRun]
    /\ nRuns = 0
    /\ lastResult = NoResult
    /\ rejected = {}
    /\ duckDBConnection = 0
    /\ workers = 0
    /\ tables = {}
    /\ now = 1
    /\ dbFailed = FALSE
    /\ pyodideInstance = FALSE
    /\ isLoading = FALSE
    /\ loadPromise = "null"
    /\ pyBoots = 0
    /\ succLog = <<>>
    /\ atClose = NoLists
    /\ gestures = 0
    /\ viewer = NoViewer
    /\ ingest = NoIngest
    /\ interp = FreshInterpreter
    /\ engine = FreshEngine
    /\ scripting = NoScripting

\* ------------------------------------------------------- render and effects
\* The state a handler leaves behind, before React commits it.
Cur == [tabs |-> tabs, tab |-> activeTabId, open |-> queryPanelOpen, zen |-> isZenMode,
        lang |-> queryLanguage, pending |-> pendingQuery,
        query |-> query, results |-> results, isRunning |-> isRunning,
        history |-> history, bookmarks |-> bookmarks, pyLoading |-> pyodideLoading,
        effW |-> effectWaiting,
        inst |-> pyodideInstance, isLoading |-> isLoading, promise |-> loadPromise,
        boots |-> pyBoots, succ |-> succLog]

\* useState initial values of a new QueryPanel instance
FreshPanel(s) == [s EXCEPT !.query = "", !.results = NoResult, !.isRunning = FALSE,
                           !.history = <<>>, !.bookmarks = <<>>, !.pyLoading = FALSE,
                           !.effW = FALSE, !.succ = <<>>]

\* The init effect: its deps are [queryLanguage, pyodideLoading].
InitEffectFires(fresh, p) ==
    /\ fresh \/ p.lang # queryLanguage \/ p.pyLoading # pyodideLoading
    /\ p.lang = "python" /\ ~p.inst /\ ~p.pyLoading

\* The default-query effect: its deps are [activeTabId, queryLanguage, queryPanelOpen].
DefaultEffectFires(fresh, p) ==
    /\ fresh \/ p.tab # activeTabId \/ p.lang # queryLanguage
    /\ p.tab # NoTab /\ p.open

DefaultQuery(lang, tab) ==
    IF lang = "sql" THEN getDefaultSQLQuery(tab) ELSE getDefaultPythonCode(tab)

\* A body of the default-query effect that would leave window.__pendingQuery set.
DefaultEffectKeepsPending(p) ==
    [query   |-> IF p.pending # Null THEN p.pending ELSE DefaultQuery(p.lang, p.tab),
     pending |-> p.pending]

\* The body of the default-query effect, lines 77-90: the query it sets and
\* what it leaves in window.__pendingQuery.
DefaultEffect(p) ==
    [query   |-> IF p.pending # Null THEN p.pending ELSE DefaultQuery(p.lang, p.tab),
     pending |-> Null]

\* The keyboard effect: its deps are
\* [queryPanelOpen, toggleQueryPanel, query, activeTab, queryLanguage].
KeyEffectFires(fresh, p) ==
    fresh \/ p.query # query \/ p.tab # activeTabId \/ p.lang # queryLanguage

\* React commits s: the panel is mounted or unmounted as App renders it, the
\* effects whose deps changed run, and the state they set is committed in turn.
Commit(s) ==
    LET m0    == Mounted(queryPanelOpen, isZenMode)
        m1    == Mounted(s.open, s.zen)
        fresh == m1 /\ ~m0
        p     == IF fresh THEN FreshPanel(s) ELSE s
        \* initPyodide() on a promise that has already rejected: the effect's
        \* setPyodideLoading(true) and its catch's setPyodideLoading(false) reach
        \* React in one batch, and nothing is committed.
        initF == InitEffectFires(fresh, p) /\ p.promise # "rejected"
        defF  == DefaultEffectFires(fresh, p)
        boot  == initF /\ p.promise = "null"
        pyLoading2 == initF \/ p.pyLoading
        query2 == IF defF THEN DefaultEffect(p).query ELSE p.query
        key1  == IF KeyEffectFires(fresh, p)
                 THEN [isRunning |-> p.isRunning, pyodideLoading |-> p.pyLoading]
                 ELSE keyHandler
        key2  == IF query2 # p.query
                 THEN [isRunning |-> p.isRunning, pyodideLoading |-> pyLoading2]
                 ELSE key1
    IN  /\ tabs' = s.tabs
        /\ activeTabId' = s.tab
        /\ queryPanelOpen' = s.open
        /\ isZenMode' = s.zen
        /\ queryLanguage' = s.lang
        /\ IF m1
           THEN /\ gen' = IF fresh THEN gen + 1 ELSE gen
                /\ query' = query2
                /\ results' = IF defF THEN NoResult ELSE p.results
                /\ pendingQuery' = IF defF THEN DefaultEffect(p).pending ELSE p.pending
                /\ isRunning' = p.isRunning
                /\ history' = p.history
                /\ bookmarks' = p.bookmarks
                /\ pyodideLoading' = pyLoading2
                /\ keyHandler' = key2
                /\ effectWaiting' = (initF \/ p.effW)
                /\ succLog' = p.succ
                /\ atClose' = IF fresh THEN NoLists ELSE atClose
                /\ pyodideInstance' = p.inst
                /\ isLoading' = (boot \/ p.isLoading)
                /\ loadPromise' = IF boot THEN "pending" ELSE p.promise
                /\ pyBoots' = IF boot THEN p.boots + 1 ELSE p.boots
           ELSE /\ gen' = gen
                /\ query' = ""
                /\ results' = NoResult
                /\ pendingQuery' = s.pending
                /\ isRunning' = FALSE
                /\ history' = <<>>
                /\ bookmarks' = <<>>
                /\ pyodideLoading' = FALSE
                /\ keyHandler' = InitKeyHandler
                /\ effectWaiting' = FALSE
                /\ succLog' = <<>>
                /\ atClose' = IF m0 THEN [history |-> s.history, bookmarks |-> s.bookmarks]
                                     ELSE atClose
                /\ pyodideInstance' = s.inst
                /\ isLoading' = s.isLoading
                /\ loadPromise' = s.promise
                /\ pyBoots' = s.boots

\* ------------------------------------------------------------ editor store
addTab(f) ==
    /\ f \in Files
    /\ f # activeTabId
    /\ Commit([Cur EXCEPT !.tabs = tabs \cup {f}, !.tab = f])
    /\ UNCHANGED <<runVars, duckVars>>

setActiveTab(t) ==
    /\ t \in tabs
    /\ t # activeTabId
    /\ Commit([Cur EXCEPT !.tab = t])
    /\ UNCHANGED <<runVars, duckVars>>

toggleQueryPanel ==
    /\ queryPanelOpen \/ isZenMode \/ gen < MaxMounts
    /\ Commit([Cur EXCEPT !.open = ~queryPanelOpen])
    /\ UNCHANGED <<runVars, duckVars>>

toggleZenMode ==
    /\ ~isZenMode \/ ~queryPanelOpen \/ gen < MaxMounts
    /\ Commit([Cur EXCEPT !.zen = ~isZenMode])
    /\ UNCHANGED <<runVars, duckVars>>

\* The language <select> of the mounted panel.
setQueryLanguage(lang) ==
    /\ Mounted(queryPanelOpen, isZenMode)
    /\ lang \in Languages
    /\ lang # queryLanguage
    /\ Commit([Cur EXCEPT !.lang = lang])
    /\ UNCHANGED <<runVars, duckVars>>

\* Queries the agent panel proposes in its answers, each in its language.
AgentQueries == {"SELECT name FROM data", "print(data.head())"}
LanguageOf(q) == IF q = "print(data.head())" THEN "python" ELSE "sql"

\* AIAgentsPanel handleAction, case 'query'
handleAction(language, q) ==
    /\ language \in Languages
    /\ q \in AgentQueries
    /\ LanguageOf(q) = language
    /\ queryPanelOpen \/ isZenMode \/ gen < MaxMounts
    /\ Commit([Cur EXCEPT !.lang = language, !.open = TRUE, !.pending = q])
    /\ UNCHANGED <<runVars, duckVars>>

\* ------------------------------------------------- QueryPanel: plain handlers
\* Editor onChange
setQuery(q) ==
    /\ Mounted(queryPanelOpen, isZenMode)
    /\ q \in UserQueries
    /\ q # query
    /\ Commit([Cur EXCEPT !.query = q])
    /\ UNCHANGED <<runVars, duckVars>>

BookmarkNames == {"top rows"}

saveBookmark(name) ==
    /\ Mounted(queryPanelOpen, isZenMode)
    /\ Trim(query) # ""
    /\ name \in BookmarkNames
    /\ Len(bookmarks) < MaxBookmarks
    /\ \E time \in now..MaxClock :
         /\ now' = time
         /\ Commit([Cur EXCEPT !.bookmarks =
                      Append(bookmarks, [id |-> time, name |-> name, query |-> query,
                                         language |-> queryLanguage])])
    /\ UNCHANGED <<runVars, duckDBConnection, workers, tables, dbFailed>>

deleteBookmark(i) ==
    /\ Mounted(queryPanelOpen, isZenMode)
    /\ i \in 1..Len(bookmarks)
    /\ Commit([Cur EXCEPT !.bookmarks =
                 SelectSeq(bookmarks, LAMBDA b : b.id # bookmarks[i].id)])
    /\ UNCHANGED <<runVars, duckVars>>

loadFromBookmark(i) ==
    /\ Mounted(queryPanelOpen, isZenMode)
    /\ i \in 1..Len(bookmarks)
    /\ Commit([Cur EXCEPT !.query = bookmarks[i].query, !.lang = bookmarks[i].language])
    /\ UNCHANGED <<runVars, duckVars>>

loadFromHistory(i) ==
    /\ Mounted(queryPanelOpen, isZenMode)
    /\ i \in 1..Len(history)
    /\ Commit([Cur EXCEPT !.query = history[i].query, !.lang = history[i].language])
    /\ UNCHANGED <<runVars, duckVars>>

clearHistory ==
    /\ Mounted(queryPanelOpen, isZenMode)
    /\ history # <<>>
    /\ Commit([Cur EXCEPT !.history = <<>>, !.succ = <<>>])
    /\ UNCHANGED <<runVars, duckVars>>

\* ------------------------------------------------------------ result values
\* A result is the set of keys the object carries besides success/executionTime:
\* error is Null when the key is absent, payload is the set of payload keys present.
ErrorResult(message) == [success |-> FALSE, error |-> message, payload |-> {}]

\* executeSQL, lines 177-188
SqlSuccess == [success |-> TRUE, error |-> Null, payload |-> {"data", "columns"}]

\* executeSQL, lines 189-196: the catch block
SqlFailure(message) == ErrorResult(message)

\* executePython, lines 266-272: output: output || undefined, plot: plotBase64 || undefined
PySuccess(printed, value) ==
    [success |-> TRUE, error |-> Null,
     payload |-> (IF printed THEN {"output"} ELSE {})
                 \cup (IF value = "figure" THEN {"plot"} ELSE {})
                 \cup (IF value = "value" THEN {"result"} ELSE {})]

\* A catch block that would return the captured stdout with the error.
PyFailureKeepsOutput(message, printed) ==
    [success |-> FALSE, error |-> message,
     payload |-> IF printed THEN {"output"} ELSE {}]

\* executePython, lines 273-280: the catch block (printed: the user code wrote to
\* stdout before it raised)
PyFailure(message, printed) == ErrorResult(message)

\* The statements of executeSQL / executePython that their try block encloses.
SqlStages == {"initDuckDB", "createTempTable", "query", "drop"}
PyStages  == {"initPyodide", "setup", "run", "convert"}
SqlTryCovers(stage) == stage \in SqlStages
\* A try block that would open only after `await initPyodide()`.
PyTryAfterInit(stage) == stage \in PyStages \ {"initPyodide"}
PyTryCovers(stage)  == stage \in PyStages

\* handleRunQuery, lines 151-155 and 174-177: { type, ...backendResult }
Shown(type, r) == [type |-> type, success |-> r.success, error |-> r.error,
                   payload |-> r.payload]

\* handleRunQuery, lines 186-192: the catch block
CatchResult(type, message) == Shown(type, ErrorResult(message))

\* setIsRunning(false) as the last statement of the try block instead.
NoFinally(threw) == IF threw THEN isRunning ELSE FALSE

\* handleRunQuery, lines 193-195: finally { setIsRunning(false) }
FinallyIsRunning(threw) == FALSE

\* addToHistory: setHistory(prev => [newItem, ...prev].slice(0, 50))
addToHistory(prev, newItem) ==
    SubSeq(<<newItem>> \o prev, 1, Min(Len(prev) + 1, HistoryCap))

\* ------------------------------------------------------------ handleRunQuery
Alive(run) == Mounted(queryPanelOpen, isZenMode) /\ run.gen = gen

\* isQueryRunnable, lines 248-252
isQueryRunnable ==
    /\ activeTabId # NoTab
    /\ queryLanguage = "sql" =>
         getFileExtension(activeTabId) \in {"csv", "tsv", "json", "jsonl", "parquet"}

\* A continuation that would read the panel's state when the run finishes.
HistoryItemNow(run) ==
    [query |-> query, language |-> queryLanguage, filePath |-> activeTabId]

\* addToHistory(query, queryLanguage, activeTab.path), line 185: the arguments
\* are the constants of the render whose handleRunQuery is running.
HistoryItem(run) ==
    [query |-> run.query, language |-> run.language, filePath |-> run.tab]

\* The continuation of handleRunQuery once the awaited backend call has returned
\* r (threw = FALSE) or an exception reached its catch block (threw = TRUE):
\* setResults, addToHistory, finally setIsRunning(false).  State set on an
\* instance that is no longer mounted is dropped by React.
Finish(i, r, threw, by) ==
    LET run   == runs[i]
        shown == IF threw THEN CatchResult(run.language, r.error)
                          ELSE Shown(run.language, r)
        ok    == ~threw /\ r.success
        \* (id and timestamp, both Date.now(), are left out: nothing reads them)
        item  == HistoryItem(run)
        s0    == [Cur EXCEPT !.succ = IF ok THEN <<item>> \o succLog ELSE succLog]
        s1    == IF Alive(run)
                 THEN [s0 EXCEPT !.results = shown,
                                 !.history = IF ok THEN addToHistory(history, item)
                                                   ELSE history,
                                 !.isRunning = FinallyIsRunning(threw)]
                 ELSE s0
    IN  /\ Commit(s1)
        /\ runs' = [runs EXCEPT ![i] = NoRun]
        /\ lastResult' = shown
        /\ rejected' = IF threw THEN rejected \cup {by} ELSE rejected
        /\ UNCHANGED nRuns

\* A failure at `stage` inside executeSQL: caught by its try block and returned
\* as a result, or - were the stage outside the try - a rejection that reaches
\* handleRunQuery's catch block.
SqlFails(i, stage, message) ==
    IF SqlTryCovers(stage)
    THEN Finish(i, SqlFailure(message), FALSE, "none")
    ELSE Finish(i, ErrorResult(message), TRUE, "executeSQL")

PyFails(i, stage, message, printed) ==
    IF PyTryCovers(stage)
    THEN Finish(i, PyFailure(message, printed), FALSE, "none")
    ELSE Finish(i, ErrorResult(message), TRUE, "executePython")

\* handleRunQuery up to its first await.  via: the Run button (rendered with the
\* current state, disabled={!isQueryRunnable || isRunning}) or the keydown
\* listener (the closure registered by the keyboard effect).
handleRunQuery(via) ==
    LET c == IF via = "button"
             THEN [isRunning |-> isRunning, pyodideLoading |-> pyodideLoading]
             ELSE keyHandler
        i == nRuns + 1
        run0 == [NoRun EXCEPT !.gen = gen, !.language = queryLanguage,
                              !.query = query, !.tab = activeTabId]
        s0 == [Cur EXCEPT !.isRunning = TRUE, !.results = NoResult]
    IN
    /\ via \in {"button", "key"}
    /\ Mounted(queryPanelOpen, isZenMode)
    /\ via = "button" => (isQueryRunnable /\ ~isRunning)
    /\ ~(activeTabId = NoTab \/ Trim(query) = "" \/ c.isRunning)
    /\ nRuns < MaxRuns
    /\ nRuns' = i
    /\ UNCHANGED <<lastResult, rejected, duckVars>>
    /\ IF queryLanguage = "sql"
       THEN \* executeSQL: await initDuckDB()
            /\ runs' = [runs EXCEPT ![i] =
                          [run0 EXCEPT !.pc = IF duckDBConnection # 0 THEN "tbl"
                                                                      ELSE "db_bundle"]]
            /\ Commit(s0)
       ELSE IF ~isPyodideReady /\ ~c.pyodideLoading
       THEN \* setPyodideLoading(true); await initPyodide()
            /\ runs' = [runs EXCEPT ![i] = [run0 EXCEPT !.pc = "py_init"]]
            /\ Commit([s0 EXCEPT !.pyLoading = TRUE,
                         !.isLoading = (loadPromise = "null") \/ isLoading,
                         !.promise = IF loadPromise = "null" THEN "pending" ELSE loadPromise,
                         !.boots = IF loadPromise = "null" THEN pyBoots + 1 ELSE pyBoots])
       ELSE \* executePython: await initPyodide()
            /\ runs' = [runs EXCEPT ![i] =
                          [run0 EXCEPT !.pc = IF pyodideInstance THEN "py_run"
                                                                 ELSE "py_exec_init"]]
            /\ Commit([s0 EXCEPT
                         !.isLoading = (~pyodideInstance /\ loadPromise = "null") \/ isLoading,
                         !.promise = IF ~pyodideInstance /\ loadPromise = "null"
                                     THEN "pending" ELSE loadPromise,
                         !.boots = IF ~pyodideInstance /\ loadPromise = "null"
                                   THEN pyBoots + 1 ELSE pyBoots])

\* ------------------------------------------------------------------ duckdb.ts
NoPanelChange == UNCHANGED <<storeVars, panelVars, pyVars, obsVars>>

\* initDuckDB, lines 12-14: await duckdb.selectBundle(...), then new Worker(...)
\* and new AsyncDuckDB(...).  The call got here because duckDBConnection was null
\* when it was made; nothing records that a bootstrap is already under way.
initDuckDB_bundle(i) ==
    /\ runs[i].pc = "db_bundle"
    /\ \/ /\ workers' = workers + 1
          /\ runs' = [runs EXCEPT ![i].pc = "db_boot", ![i].boot = workers + 1]
          /\ UNCHANGED <<duckDBConnection, tables, now, dbFailed, nRuns, lastResult, rejected>>
          /\ NoPanelChange
       \/ /\ dbFailed' = TRUE
          /\ UNCHANGED <<duckDBConnection, workers, tables, now>>
          /\ SqlFails(i, "initDuckDB", "selectBundle failed")

\* initDuckDB, lines 24-26: await instantiate(...); duckDBConnection = await connect()
initDuckDB_connect(i) ==
    /\ runs[i].pc = "db_boot"
    /\ \/ /\ duckDBConnection' = runs[i].boot
          /\ runs' = [runs EXCEPT ![i].pc = "db_json"]
          /\ UNCHANGED <<workers, tables, now, dbFailed, nRuns, lastResult, rejected>>
          /\ NoPanelChange
       \/ /\ dbFailed' = TRUE
          /\ UNCHANGED <<duckDBConnection, workers, tables, now>>
          /\ SqlFails(i, "initDuckDB", "instantiate failed")

\* initDuckDB, lines 29-32: INSTALL json; LOAD json; return duckDBConnection
initDuckDB_json(i) ==
    /\ runs[i].pc = "db_json"
    /\ \/ /\ runs' = [runs EXCEPT ![i].pc = "tbl"]
          /\ UNCHANGED <<duckDBConnection, workers, tables, now, dbFailed, nRuns, lastResult, rejected>>
          /\ NoPanelChange
       \/ /\ dbFailed' = TRUE
          /\ UNCHANGED <<duckDBConnection, workers, tables, now>>
          /\ SqlFails(i, "initDuckDB", "INSTALL json failed")

\* What the content of the active file is like when a query is run:
\*   "rows"      well formed for the extension: delimited text with a header,
\*               a JSON array of flat objects that all have the keys of the first
\*   "malformed" not parseable as what the extension says
\*   "ragged"    a JSON array in which an element has a key the first one lacks,
\*               or a nested value: its INSERT is rejected
\*   "empty"     the JSON text [] (or a scalar)
Contents == {"rows", "malformed", "ragged", "empty"}

\* createTempTable: tableName = `data_${Date.now()}`.  Every CREATE TEMP TABLE
\* fails when a table of that name exists, and the catch blocks (lines 107-111,
\* 132-141) issue CREATE TEMP TABLE for the same name again.
\*   csv, tsv, parquet  one CREATE ... AS SELECT; when it fails the outer catch
\*                      builds the text table
\*   json, jsonl        JSON.parse; for an array with a first element CREATE,
\*                      then one INSERT per element; a parse error goes to the
\*                      inner catch, which builds the text table; an INSERT
\*                      error goes to the inner catch and then to the outer
\*                      one, whose CREATEs both fail on the table that exists;
\*                      for [] nothing is created and the name is returned
\*   others             CREATE (content VARCHAR), one INSERT per line
createTempTable(tbls, tableName, extension, content) ==
    IF tableName \in tbls
    THEN [tables |-> tbls, threw |-> TRUE]
    ELSE IF extension \in {"json", "jsonl"} /\ content = "ragged"
    THEN [tables |-> tbls \cup {tableName}, threw |-> TRUE]
    ELSE IF extension \in {"json", "jsonl"} /\ content = "empty"
    THEN [tables |-> tbls, threw |-> FALSE]
    ELSE [tables |-> tbls \cup {tableName}, threw |-> FALSE]

\* executeSQL, line 154
executeSQL_table(i) ==
    /\ runs[i].pc = "tbl"
    /\ \E content \in Contents, time \in now..MaxClock :
         LET t == createTempTable(tables, time, getFileExtension(runs[i].tab), content) IN
         /\ now' = time
         /\ tables' = t.tables
         /\ UNCHANGED <<duckDBConnection, workers, dbFailed>>
         /\ IF t.threw
            THEN SqlFails(i, "createTempTable", "CREATE or INSERT failed")
            ELSE /\ runs' = [runs EXCEPT ![i].pc = "qry", ![i].table = time]
                 /\ UNCHANGED <<nRuns, lastResult, rejected>>
                 /\ NoPanelChange

\* The relation a query text names after FROM, as the three FROM patterns of
\* executeSQL see it: a quoted file name (its '.'-separated parts), or a bare
\* word cut where the pattern /FROM\s+data/ stops matching (<<"data", rest>>
\* for a word that starts with data), or nothing when the text has no FROM.
FromClause(q) ==
    CASE q = "SELECT * FROM 'data.csv' LIMIT 100;"     -> [quoted |-> TRUE,  word |-> <<"data", "csv">>]
      [] q = "SELECT * FROM 'data.json';"              -> [quoted |-> TRUE,  word |-> <<"data", "json">>]
      [] q = "SELECT * FROM 'data.parquet' LIMIT 100;" -> [quoted |-> TRUE,  word |-> <<"data", "parquet">>]
      [] q = "SELECT * FROM data;"                     -> [quoted |-> FALSE, word |-> <<"data">>]
      [] q = "SELECT COUNT(*) FROM data"               -> [quoted |-> FALSE, word |-> <<"data">>]
      [] q = "SELECT name FROM data"                   -> [quoted |-> FALSE, word |-> <<"data">>]
      [] OTHER                                         -> [quoted |-> FALSE, word |-> <<>>]

\* `data_${Date.now()}`
TableName(time) == <<"data", "_", ToString(time)>>

\* .replace(/FROM\s+['"]data\.\w+['"]/gi, `FROM ${tableName}`) and
\* .replace(/FROM\s+['"][^'"]+\.\w+['"]/gi, `FROM ${tableName}`)
ReplaceQuoted(from, tableName) ==
    IF from.quoted /\ Len(from.word) >= 2
    THEN [quoted |-> FALSE, word |-> tableName]
    ELSE from

\* .replace(/FROM\s+data/gi, `FROM ${tableName}`): the pattern has no word
\* boundary, so it matches the first four letters of any word that starts
\* with data and leaves the rest of the word in place.
ReplaceData(from, tableName) ==
    IF ~from.quoted /\ from.word # <<>> /\ Head(from.word) = "data"
    THEN [quoted |-> FALSE, word |-> tableName \o Tail(from.word)]
    ELSE from

\* executeSQL, lines 156-166: the relation the processed query reads
processedQuery(q, tableName) ==
    LET replaced == ReplaceData(ReplaceQuoted(ReplaceQuoted(FromClause(q), tableName),
                                              tableName), tableName)
    IN  IF replaced.word = <<>>
        THEN [quoted |-> FALSE, word |-> tableName]   \* SELECT * FROM ${tableName}
        ELSE replaced

\* conn.query(processedQuery) can succeed only when the relation it reads exists.
Readable(q, time, tbls) ==
    LET from == processedQuery(q, TableName(time))
    IN  ~from.quoted /\ \E t \in tbls : from.word = TableName(t)

\* executeSQL, lines 168-173: the tables left once the rewritten query and the
\* DROP have been issued.  The DROP is the statement after the query inside the
\* try block: it is reached only when the query has not thrown.
AfterQuery(tbls, tableName, outcome) ==
    IF outcome = "ok" THEN tbls \ {tableName} ELSE tbls

QueryOutcomes == {"ok", "query_fails", "drop_fails"}

executeSQL_query(i) ==
    /\ runs[i].pc = "qry"
    /\ \E outcome \in QueryOutcomes :
         /\ outcome # "query_fails" => Readable(runs[i].query, runs[i].table, tables)
         /\ tables' = AfterQuery(tables, runs[i].table, outcome)
         /\ UNCHANGED <<duckDBConnection, workers, now, dbFailed>>
         /\ CASE outcome = "ok"          -> Finish(i, SqlSuccess, FALSE, "none")
              [] outcome = "query_fails" -> SqlFails(i, "query", "query failed")
              [] outcome = "drop_fails"  -> SqlFails(i, "drop", "DROP failed")

\* ----------------------------------------------------------------- pyodide.ts
NoDuckChange == UNCHANGED duckVars

\* initPyodide, lines 34-42: loadPyodide(...) settles; pyodideInstance = pyodide
initPyodide_load ==
    /\ loadPromise = "pending" /\ ~pyodideInstance
    /\ \/ /\ pyodideInstance' = TRUE
          /\ UNCHANGED <<isLoading, loadPromise>>
       \/ /\ isLoading' = FALSE
          /\ loadPromise' = "rejected"
          /\ UNCHANGED pyodideInstance
    /\ UNCHANGED <<pyBoots, storeVars, panelVars, runVars, duckVars, obsVars>>

\* initPyodide, lines 45-59: loadPackage and micropip.install settle;
\* resolve(pyodideInstance) or reject(error)
initPyodide_packages ==
    /\ loadPromise = "pending" /\ pyodideInstance
    /\ isLoading' = FALSE
    /\ loadPromise' \in {"resolved", "rejected"}
    /\ UNCHANGED <<pyodideInstance, pyBoots, storeVars, panelVars, runVars, duckVars, obsVars>>

\* The init effect's initPyodide().then(...).catch(...): setPyodideLoading(false)
initEffect_settled ==
    /\ Mounted(queryPanelOpen, isZenMode)
    /\ effectWaiting
    /\ loadPromise \in {"resolved", "rejected"}
    /\ Commit([Cur EXCEPT !.pyLoading = FALSE, !.effW = FALSE])
    /\ UNCHANGED <<runVars, duckVars>>

\* handleRunQuery, lines 160-162: await initPyodide() settles
handleRunQuery_init(i) ==
    /\ runs[i].pc = "py_init"
    /\ loadPromise \in {"resolved", "rejected"}
    /\ NoDuckChange
    /\ IF loadPromise = "resolved"
       THEN \* setPyodideLoading(false); executePython: initPyodide() returns the instance
            /\ runs' = [runs EXCEPT ![i].pc = "py_run"]
            /\ UNCHANGED <<nRuns, lastResult, rejected>>
            /\ Commit(IF Alive(runs[i]) THEN [Cur EXCEPT !.pyLoading = FALSE] ELSE Cur)
       ELSE Finish(i, ErrorResult("pyodide failed to load"), TRUE, "initPyodide")

\* executePython, line 191: await initPyodide() settles
executePython_init(i) ==
    /\ runs[i].pc = "py_exec_init"
    /\ loadPromise \in {"resolved", "rejected"}
    /\ NoDuckChange
    /\ IF loadPromise = "resolved"
       THEN /\ runs' = [runs EXCEPT ![i].pc = "py_run"]
            /\ UNCHANGED <<nRuns, lastResult, rejected>>
            /\ NoPanelChange
       ELSE PyFails(i, "initPyodide", "pyodide failed to load", FALSE)

PyValues == {"none", "value", "figure"}

\* executePython, lines 194-272: setup, user code, result conversion
executePython_run(i) ==
    /\ runs[i].pc = "py_run"
    /\ NoDuckChange
    /\ \E printed \in BOOLEAN :
         \/ \E value \in PyValues : Finish(i, PySuccess(printed, value), FALSE, "none")
         \/ PyFails(i, "run", IF printed THEN "exception after output"
                                          ELSE "exception", printed)

\* ---------------------------------------------------------------------- Next
\* A step the user takes (a session has at most n of them), and a
\* step the page takes by itself.
User(A, n) == gestures < n /\ gestures' = gestures + 1 /\ A /\ UNCHANGED <<viewer, ingest, interp, engine, scripting>>
Auto(A)    == UNCHANGED <<gestures, viewer, ingest, interp, engine, scripting>> /\ A

Step(n) ==
    \/ User(\E f \in Files : addTab(f), n)
    \/ User(\E t \in Files : setActiveTab(t), n)
    \/ User(toggleQueryPanel, n)
    \/ User(toggleZenMode, n)
    \/ User(\E l \in Languages : setQueryLanguage(l), n)
    \/ User(\E l \in Languages, q \in AgentQueries : handleAction(l, q), n)
    \/ User(\E q \in UserQueries : setQuery(q), n)
    \/ User(\E name \in BookmarkNames : saveBookmark(name), n)
    \/ User(\E i \in 1..MaxBookmarks : deleteBookmark(i), n)
    \/ User(\E i \in 1..MaxBookmarks : loadFromBookmark(i), n)
    \/ User(\E i \in 1..MaxRuns : loadFromHistory(i), n)
    \/ User(clearHistory, n)
    \/ User(\E via \in {"button", "key"} : handleRunQuery(via), n)
    \/ Auto(\E i \in 1..MaxRuns : initDuckDB_bundle(i))
    \/ Auto(\E i \in 1..MaxRuns : initDuckDB_connect(i))
    \/ Auto(\E i \in 1..MaxRuns : initDuckDB_json(i))
    \/ Auto(\E i \in 1..MaxRuns : executeSQL_table(i))
    \/ Auto(\E i \in 1..MaxRuns : executeSQL_query(i))
    \/ Auto(initPyodide_load)
    \/ Auto(initPyodide_packages)
    \/ Auto(initEffect_settled)
    \/ Auto(\E i \in 1..MaxRuns : handleRunQuery_init(i))
    \/ Auto(\E i \in 1..MaxRuns : executePython_init(i))
    \/ Auto(\E i \in 1..MaxRuns : executePython_run(i))

\* The editor from the moment the query panel has first been opened on one of
\* the session's files: the state toggleQueryPanel leaves (the component
\* mounted, its effects run, the default SQL query loaded).
InitOpen ==
    /\ tabs = Files /\ activeTabId \in Files
    /\ queryPanelOpen = TRUE
    /\ isZenMode = FALSE
    /\ queryLanguage = "sql"
    /\ pendingQuery = Null
    /\ gen = 1
    /\ query = DefaultQuery("sql", activeTabId)
    /\ results = NoResult
    /\ isRunning = FALSE
    /\ history = <<>>
    /\ bookmarks = <<>>
    /\ pyodideLoading = FALSE
    /\ keyHandler = InitKeyHandler
    /\ effectWaiting = FALSE
    /\ runs = [i \in 1..MaxRuns |-> NoRun]
    /\ nRuns = 0
    /\ lastResult = NoResult
    /\ rejected = {}
    /\ duckDBConnection = 0
    /\ workers = 0
    /\ tables = {}
    /\ now = 1
    /\ dbFailed = FALSE
    /\ pyodideInstance = FALSE
    /\ isLoading = FALSE
    /\ loadPromise = "null"
    /\ pyBoots = 0
    /\ succLog = <<>>
    /\ atClose = NoLists
    /\ gestures = 0
    /\ viewer = NoViewer
    /\ ingest = NoIngest
    /\ interp = FreshInterpreter
    /\ engine = FreshEngine
    /\ scripting = NoScripting

Next == Step(MaxGestures)
Spec == (Init \/ InitOpen) /\ [][Next]_vars

SessionNext == Step(MaxSessionGestures)
SessionSpec == Init /\ [][SessionNext]_vars

\* ------------------------------------------------------------ ResultsViewer
\* A cell of a result row: a string (its characters) or null.
Str(s)   == [null |-> FALSE, s |-> s]
NullCell == [null |-> TRUE, s |-> <<>>]

\* results.columns and the rows results.data is built from; a row is an object
\* with one cell per column.
Columns == <<"name", "city">>
ResultRows ==
    { [name |-> Str(<<"b">>),           city |-> Str(<<"a">>)],
      [name |-> Str(<<"a">>),           city |-> NullCell],
      [name |-> Str(<<"a", ",", "b">>), city |-> Str(<<"b">>)] }
ResultData == UNION { [1..n -> ResultRows] : n \in 0..MaxRows }

\* What the user types into the filter box.
FilterTexts == { <<>>, <<"A">>, <<"n", "u">> }

\* String(val) and String.prototype.toLowerCase / includes
StringOf(val) == IF val.null THEN <<"n", "u", "l", "l">> ELSE val.s
LowerCase(s) == [i \in 1..Len(s) |-> IF s[i] = "A" THEN "a" ELSE s[i]]
includes(s, sub) ==
    \E k \in 0..(Len(s) - Len(sub)) : SubSeq(s, k + 1, k + Len(sub)) = sub

\* UTF-16 code units, which order strings under < and >
CharCode(c) ==
    CASE c = "\n" -> 10 [] c = "\"" -> 34 [] c = "," -> 44 [] c = "A" -> 65
      [] c = "a" -> 97  [] c = "b" -> 98  [] c = "l" -> 108 [] c = "n" -> 110
      [] c = "u" -> 117

\* aVal < bVal: two strings compare by code units; null against a string is a
\* numeric comparison with NaN, null against null is 0 < 0: both false.
LessThan(aVal, bVal) ==
    /\ ~aVal.null /\ ~bVal.null
    /\ \E k \in 1..(Min(Len(aVal.s), Len(bVal.s)) + 1) :
          /\ SubSeq(aVal.s, 1, k - 1) = SubSeq(bVal.s, 1, k - 1)
          /\ k <= Len(bVal.s)
          /\ (k <= Len(aVal.s) => CharCode(aVal.s[k]) < CharCode(bVal.s[k]))

\* the comparator handed to Array.prototype.sort
compare(a, b, sortColumn, sortDirection) ==
    IF LessThan(a[sortColumn], b[sortColumn])
    THEN (IF sortDirection = "asc" THEN -1 ELSE 1)
    ELSE IF LessThan(b[sortColumn], a[sortColumn])
    THEN (IF sortDirection = "asc" THEN 1 ELSE -1)
    ELSE 0

\* Array.prototype.sort: stable; for an array this short, insertion from the
\* right end of the sorted prefix.
RECURSIVE InsertAt(_, _, _, _, _)
InsertAt(sorted, j, x, sortColumn, sortDirection) ==
    IF j >= 1 /\ compare(x, sorted[j], sortColumn, sortDirection) < 0
    THEN InsertAt(sorted, j - 1, x, sortColumn, sortDirection)
    ELSE SubSeq(sorted, 1, j) \o <<x>> \o SubSeq(sorted, j + 1, Len(sorted))

RECURSIVE sort(_, _, _)
sort(data, sortColumn, sortDirection) ==
    IF Len(data) = 0 THEN <<>>
    ELSE LET front == sort(SubSeq(data, 1, Len(data) - 1), sortColumn, sortDirection)
         IN  InsertAt(front, Len(front), data[Len(data)], sortColumn, sortDirection)

\* the rows the viewer displays, over all pages
processedData(v) ==
    LET lowerFilter == LowerCase(v.filterText)
        matches(row) == \E col \in DOMAIN row :
                            includes(LowerCase(StringOf(row[col])), lowerFilter)
        filtered == IF v.filterText # <<>> THEN SelectSeq(v.data, matches) ELSE v.data
    IN  IF v.sortColumn # "none"
        THEN sort(filtered, v.sortColumn, v.sortDirection)
        ELSE filtered

\* Array.prototype.join over pieces of text
RECURSIVE join(_, _)
join(pieces, sep) ==
    IF Len(pieces) = 0 THEN <<>>
    ELSE IF Len(pieces) = 1 THEN pieces[1]
    ELSE pieces[1] \o <<sep>> \o join(Tail(pieces), sep)

\* str.replace(/"/g, '""')
RECURSIVE DoubleQuotes(_)
DoubleQuotes(s) ==
    IF Len(s) = 0 THEN <<>>
    ELSE (IF Head(s) = "\"" THEN <<"\"", "\"">> ELSE <<Head(s)>>) \o DoubleQuotes(Tail(s))

\* one field of a line of exportToCSV
CsvField(val) ==
    IF val.null THEN <<>>
    ELSE IF \E i \in 1..Len(val.s) : val.s[i] \in {",", "\"", "\n"}
    THEN <<"\"">> \o DoubleQuotes(val.s) \o <<"\"">>
    ELSE val.s

\* the text exportToCSV returns; a column name is one piece of text
exportToCSV(data, columns) ==
    IF Len(data) = 0 THEN <<>>
    ELSE LET header == join([c \in 1..Len(columns) |-> <<columns[c]>>], ",")
             line(row) == join([c \in 1..Len(columns) |-> CsvField(row[columns[c]])], ",")
         IN  join(<<header>> \o [r \in 1..Len(data) |-> line(data[r])], "\n")

\* JSON.stringify of an array of row objects: per object its members in key
\* order, a string member quoted, a null member the literal null.
exportToJSON(data) ==
    [r \in 1..Len(data) |->
        [c \in 1..Len(Columns) |->
            LET val == data[r][Columns[c]]
            IN  [key |-> Columns[c],
                 literal |-> IF val.null THEN <<"null">>
                             ELSE <<"\"">> \o val.s \o <<"\"">>]]]

\* JSON.parse of such a text
JsonParse(json) ==
    [r \in 1..Len(json) |->
        [col \in { json[r][c].key : c \in 1..Len(json[r]) } |->
            LET member == CHOOSE m \in { json[r][c] : c \in 1..Len(json[r]) } : m.key = col
            IN  IF member.literal = <<"null">> THEN NullCell
                ELSE Str(SubSeq(member.literal, 2, Len(member.literal) - 1))]]

NoMainChange == UNCHANGED <<storeVars, panelVars, runVars, duckVars, pyVars, obsVars, gestures, ingest, interp, engine, scripting>>

\* a successful SQL result (columns and data, an array even when empty) is
\* handed to the viewer
showResults(data) ==
    /\ viewer' = [viewer EXCEPT !.shown = TRUE, !.data = data]
    /\ NoMainChange

setFilterText(text) ==
    /\ viewer' = [viewer EXCEPT !.filterText = text]
    /\ NoMainChange

handleSort(column) ==
    /\ viewer' = IF viewer.sortColumn = column
                 THEN [viewer EXCEPT !.sortDirection =
                                         IF viewer.sortDirection = "asc" THEN "desc" ELSE "asc"]
                 ELSE [viewer EXCEPT !.sortColumn = column, !.sortDirection = "asc"]
    /\ NoMainChange

\* the rows the export handlers hand to the serialisers
ExportedRows(v) == v.data

handleExportCSV ==
    /\ viewer.shown
    /\ viewer' = [viewer EXCEPT !.exported =
                     [NoExport EXCEPT !.format = "csv",
                                      !.csv = exportToCSV(ExportedRows(viewer), Columns),
                                      !.displayed = processedData(viewer)]]
    /\ NoMainChange

handleExportJSON ==
    /\ viewer.shown
    /\ viewer' = [viewer EXCEPT !.exported =
                     [NoExport EXCEPT !.format = "json",
                                      !.json = exportToJSON(ExportedRows(viewer)),
                                      !.displayed = processedData(viewer)]]
    /\ NoMainChange

ViewerNext ==
    \/ \E data \in ResultData : showResults(data)
    \/ \E text \in FilterTexts : setFilterText(text)
    \/ \E column \in { Columns[c] : c \in 1..Len(Columns) } : handleSort(column)
    \/ handleExportCSV
    \/ handleExportJSON

ViewerSpec == Init /\ [][ViewerNext]_vars

\* ------------------------------------------- createTempTable, the JSON branch
\* A JSON array of objects, written as runs of elements with the same keys:
\* <<keys, n>> stands for n consecutive objects with exactly those keys.
KeySets == { {}, {"a"}, {"a", "b"} }
RunLengths == { 1, JsonRowLimit - 1, JsonRowLimit }
Segments == KeySets \X RunLengths
JsonArrays == UNION { [1..n -> Segments] : n \in 0..MaxSegments }

RECURSIVE length(_)
length(array) == IF Len(array) = 0 THEN 0 ELSE Head(array)[2] + length(Tail(array))

\* jsonData.slice(0, n)
RECURSIVE slice(_, _)
slice(array, n) ==
    IF Len(array) = 0 \/ n = 0 THEN <<>>
    ELSE IF Head(array)[2] >= n THEN << <<Head(array)[1], n>> >>
    ELSE <<Head(array)>> \o slice(Tail(array), n - Head(array)[2])

\* INSERT INTO t (keys) VALUES (...): rejected for a key that is no column of
\* the relation, and for an empty column list
InsertAccepted(keys, columns) == keys # {} /\ keys \subseteq columns

\* the for loop over the sliced rows: it stops at the first rejected INSERT
RECURSIVE InsertRows(_, _)
InsertRows(array, columns) ==
    IF Len(array) = 0 THEN [rows |-> <<>>, threw |-> FALSE]
    ELSE IF ~InsertAccepted(Head(array)[1], columns) THEN [rows |-> <<>>, threw |-> TRUE]
    ELSE LET rest == InsertRows(Tail(array), columns)
         IN  [rows |-> <<Head(array)>> \o rest.rows, threw |-> rest.threw]

\* createTempTable for an array in a .json file, on an engine that holds no
\* relation of the chosen name
createJsonTable(jsonData) ==
    IF length(jsonData) = 0
    THEN \* no statement is issued
         [relation |-> NoRelation, threw |-> FALSE]
    ELSE IF Head(jsonData)[1] = {}
    THEN \* CREATE TEMP TABLE t () is rejected; the inner catch stores the text
         [relation |-> [exists |-> TRUE, columns |-> {"content"},
                        rows |-> << <<{"content"}, 1>> >>],
          threw |-> FALSE]
    ELSE LET columns  == Head(jsonData)[1]
             inserted == InsertRows(slice(jsonData, JsonRowLimit), columns)
         IN  \* after a rejected INSERT both catch blocks repeat the CREATE
             \* for the name that exists, and the second failure is thrown
             [relation |-> [exists |-> TRUE, columns |-> columns, rows |-> inserted.rows],
              threw |-> inserted.threw]

NoEditorChange == UNCHANGED <<storeVars, panelVars, runVars, duckVars, pyVars, obsVars, gestures, viewer, interp, engine, scripting>>

\* the content of the active .json file is read
readJsonFile(content) ==
    /\ ingest.pc = "none"
    /\ ingest' = [ingest EXCEPT !.content = content, !.pc = "read"]
    /\ NoEditorChange

createTempTable_json ==
    /\ ingest.pc = "read"
    /\ LET made == createJsonTable(ingest.content)
       IN  ingest' = [ingest EXCEPT !.pc = "done", !.relation = made.relation,
                                    !.threw = made.threw]
    /\ NoEditorChange

IngestNext ==
    \/ \E content \in JsonArrays : readJsonFile(content)
    \/ createTempTable_json

IngestSpec == Init /\ [][IngestNext]_vars

\* --------------------------------------------------- executePython, one call
\* Python values user code evaluates to or binds: None, two numbers, a pandas
\* DataFrame, a matplotlib Figure, an object of some other class.
PyObjects == {"None", "1", "2", "DataFrame", "Figure", "object"}
Bound(v) == [bound |-> TRUE, value |-> v]

\* User code, by what running it does: the value its last expression
\* evaluates to (None for a statement), the value it assigns to a global
\* named result (if it assigns one), whether it prints, whether it raises.
Codes ==
    [evaluates : PyObjects, binds : {Unbound} \cup {Bound(v) : v \in PyObjects},
     prints : BOOLEAN, raises : BOOLEAN]

\* lines 247-260: the conversion snippet, applied to the global it names
Display(v) ==
    IF v = "DataFrame" THEN [kind |-> "records", of |-> v]
    ELSE IF v \in {"1", "2"} THEN [kind |-> "value", of |-> v]
    ELSE [kind |-> "str", of |-> v]

PyError(message) == [NoReturn EXCEPT !.error = message]

\* One call of executePython on a loaded interpreter, lines 194-281.
executePython(code) ==
    /\ interp.calls < MaxRuns
    /\ LET \* setupPythonEnvironment, lines 145-149: a new buffer (stream
           \* number = the call's number) becomes sys.stdout, and what
           \* sys.stdout was is stored as _original_stdout
           buffer == interp.calls + 1
           setup  == [interp EXCEPT !.calls = buffer,
                                    !.output_buffer = Bound(buffer),
                                    !.original_stdout = Bound(interp.stdout),
                                    !.stdout = buffer,
                                    !.ran = [evaluates |-> code.evaluates,
                                             raises |-> code.raises]]
           \* line 203: the user code runs in the interpreter's globals
           after  == [setup EXCEPT !.result = IF code.binds.bound THEN code.binds
                                               ELSE interp.result]
           \* line 210: the value in the JavaScript variable is not None
           inspected == code.evaluates # "None"
           \* lines 212-219 and on: the snippets read the global named result
           named  == after.result
       IN  interp' =
             IF code.raises
             THEN [after EXCEPT !.returned = PyError("exception in user code")]
             ELSE IF inspected /\ ~named.bound
             THEN [after EXCEPT !.returned = PyError("name 'result' is not defined")]
             ELSE [after EXCEPT !.returned =
                      [success |-> TRUE, error |-> Null,
                       result |-> IF inspected /\ named.value # "Figure"
                                  THEN Display(named.value)
                                  ELSE NoReturn.result,
                       output |-> code.prints,
                       plot |-> inspected /\ named.value = "Figure"]]
    /\ UNCHANGED <<storeVars, panelVars, runVars, duckVars, pyVars, obsVars,
                   gestures, viewer, ingest, engine, scripting>>

PythonNext == \E code \in Codes : executePython(code)

PythonSpec == Init /\ [][PythonNext]_vars

\* ------------------------------------------- executeSQL, calls in succession
\* Queries run on data.csv, whose content (well-formed delimited text) does
\* not change: the default template, a count over the placeholder name, and
\* the schema query of the documentation.
EngineQueries ==
    { "SELECT * FROM 'data.csv' LIMIT 100;", "SELECT COUNT(*) FROM data", "DESCRIBE 'data.csv'" }

\* the statement keyword of a query text
Verb(q) == IF q = "DESCRIBE 'data.csv'" THEN "DESCRIBE" ELSE "SELECT"

\* what a query text names after DESCRIBE, if it is quoted
DescribeClause(q) ==
    IF q = "DESCRIBE 'data.csv'"
    THEN [quoted |-> TRUE, word |-> <<"data", "csv">>]
    ELSE [quoted |-> FALSE, word |-> <<>>]

\* .replace(/DESCRIBE\s+['"][^'"]+['"]/gi, `DESCRIBE ${tableName}`)
ReplaceDescribe(described, tableName) ==
    IF described.quoted THEN [quoted |-> FALSE, word |-> tableName] ELSE described

\* lines 156-166: the statement handed to conn.query.  A text without the
\* letters "from" after the four replacements is discarded for
\* SELECT * FROM ${tableName}.
statementSent(q, tableName) ==
    LET described == ReplaceDescribe(DescribeClause(q), tableName)
        hasFrom   == FromClause(q).word # <<>>
    IN  IF ~hasFrom
        THEN [verb |-> "SELECT", reads |-> [quoted |-> FALSE, word |-> tableName]]
        ELSE [verb |-> Verb(q),
              reads |-> IF Verb(q) = "DESCRIBE" THEN described
                        ELSE processedQuery(q, tableName)]

\* the rows a statement yields on the unchanged content: they depend on the
\* statement and the content, not on the relation's name
RowsOf(q, sent) == <<sent.verb, q>>

\* One call of executeSQL(q, 'data.csv', content) from start to return, on a
\* connection that is ready, lines 152-196.
executeSQL(q) ==
    /\ engine.calls < MaxCalls
    /\ \E time \in engine.now..MaxClock :
         LET made == createTempTable(engine.tables, time, "csv", "rows")
             sent == statementSent(q, TableName(time))
             ok   == ~sent.reads.quoted
                     /\ \E t \in made.tables : sent.reads.word = TableName(t)
             call == IF made.threw
                     THEN [NoCall EXCEPT !.query = q, !.error = "CREATE failed"]
                     ELSE IF ok
                     THEN [query |-> q, success |-> TRUE, rows |-> RowsOf(q, sent),
                           error |-> Null, sent |-> sent, table |-> time]
                     ELSE [NoCall EXCEPT !.query = q, !.error = "query failed",
                                         !.sent = sent, !.table = time]
         IN  engine' = [tables |-> IF ~made.threw /\ ok
                                   THEN AfterQuery(made.tables, time, "ok")
                                   ELSE made.tables,
                        now |-> time, calls |-> engine.calls + 1,
                        previous |-> engine.last, last |-> call]
    /\ UNCHANGED <<storeVars, panelVars, runVars, duckVars, pyVars, obsVars,
                   gestures, viewer, ingest, interp, scripting>>

EngineNext == \E q \in EngineQueries : executeSQL(q)

EngineSpec == Init /\ [][EngineNext]_vars

\* ------------------------------------- executePython, calls that may overlap
\* What user code hands to save(): a string, or a list / dict.
SaveArgs == { [type |-> "string", value |-> "new text"], [type |-> "object", value |-> "rows"] }

\* save helper, lines 109-114: the text handed to the callback
contentToSave(data) ==
    IF data.type = "string" THEN [format |-> "string", of |-> data.value]
    ELSE [format |-> "JSON.stringify", of |-> data.value]

\* The setup code's auto-load, lines 157-171: json.loads for json, read_csv for
\* csv and tsv, the content itself otherwise; a failed load gives None.  A
\* file's original content is well formed for its extension; of the texts a
\* save can write, only the JSON text parses as JSON.
AutoLoad(file_ext, content) ==
    IF file_ext = "json"
    THEN (IF content.format \in {"file", "JSON.stringify"}
          THEN [kind |-> "parsed", of |-> content] ELSE [kind |-> "None", of |-> Original])
    ELSE IF file_ext \in {"csv", "tsv"}
    THEN [kind |-> "DataFrame", of |-> content]
    ELSE [kind |-> "raw", of |-> content]

NoHostChange == UNCHANGED <<storeVars, panelVars, runVars, duckVars, pyVars, obsVars,
                            gestures, viewer, ingest, interp, engine>>

\* handleRunQuery calls executePython(query, activeTab.path, activeTab.content,
\* callback) for the tab that is active; a second call can be made while the
\* first has not returned.  The call waits at `await initPyodide()`.
executePython_call(i, tab) ==
    /\ scripting.calls[i].pc = "none"
    /\ \A j \in 1..(i - 1) : scripting.calls[j].pc # "none"
    /\ scripting' = [scripting EXCEPT !.calls[i] =
                        [NoPyCall EXCEPT !.pc = "setup", !.tab = tab,
                                         !.content = scripting.contents[tab]]]
    /\ NoHostChange

\* setupPythonEnvironment, lines 71-172: the globals are set, save is bound to
\* a function over this call's callback, the setup code makes a new buffer.
setupPythonEnvironment(i) ==
    /\ scripting.calls[i].pc = "setup"
    /\ LET call == scripting.calls[i] IN
       scripting' = [scripting EXCEPT
                        !.calls[i].pc = "reset",
                        !.globals = [content |-> call.content, file_path |-> call.tab,
                                     file_ext |-> getFileExtension(call.tab),
                                     data |-> AutoLoad(getFileExtension(call.tab), call.content),
                                     save |-> i, buffer |-> <<>>]]
    /\ NoHostChange

\* lines 197-200: _output_buffer.truncate(0); _output_buffer.seek(0)
executePython_reset(i) ==
    /\ scripting.calls[i].pc = "reset"
    /\ scripting' = [scripting EXCEPT !.calls[i].pc = "code", !.globals.buffer = <<>>]
    /\ NoHostChange

\* updateTabContent(id, content), editorStore.ts 220-227
updateTabContent(contents, id, content) == [contents EXCEPT ![id] = content]

\* line 203: the user code runs.  It sees the globals as they are now; it
\* prints or not, and calls save(data) or not.  save invokes the callback it
\* is bound to, which updates the tab of the call that supplied the callback.
executePython_code(i, prints, saves, data) ==
    /\ scripting.calls[i].pc = "code"
    /\ LET owner == scripting.globals.save
           target == scripting.calls[owner].tab
           text == contentToSave(data)
           started == [scripting EXCEPT
                          !.calls[i].pc = "done",
                          !.calls[i].seen = scripting.globals,
                          !.globals.buffer = IF prints THEN @ \o <<i>> ELSE @]
       IN  scripting' =
             IF saves
             THEN [started EXCEPT
                      !.contents = updateTabContent(scripting.contents, target, text),
                      !.dirty = @ \cup {target},
                      !.lastSave = [caller |-> i, arg |-> data,
                                    before |-> scripting.contents,
                                    dirtyBefore |-> scripting.dirty,
                                    invoked |-> <<text>>]]
             ELSE started
    /\ NoHostChange

ScriptingNext ==
    \/ \E i \in 1..MaxRuns, tab \in Files : executePython_call(i, tab)
    \/ \E i \in 1..MaxRuns : setupPythonEnvironment(i)
    \/ \E i \in 1..MaxRuns : executePython_reset(i)
    \/ \E i \in 1..MaxRuns, prints \in BOOLEAN, saves \in BOOLEAN, data \in SaveArgs :
          executePython_code(i, prints, saves, data)

ScriptingSpec == Init /\ [][ScriptingNext]_vars

\* ------------------------------------------------------------------ claims
InFlight == { i \in 1..MaxRuns : runs[i].pc # "none" }
Settles(i) == runs[i].pc # "none" /\ runs'[i].pc = "none"

\* C1: at most one query run is in progress at any time, whichever handler
\* (Run button, keydown listener) asked for it.
C1_SingleRun == Cardinality(InFlight) <= 1

\* C2: a data_* relation exists only while the executeSQL call that created it
\* has not returned yet.
C2_NoLeftoverTable ==
    \A t \in tables : \E i \in InFlight : runs[i].pc = "qry" /\ runs[i].table = t

DuckBootPcs == {"db_bundle", "db_boot", "db_json"}

\* C3: the DuckDB bootstrap is started at most once: never two bootstraps in
\* flight together, never a second worker.
C3_OneDuckBootstrap ==
    /\ workers <= 1
    /\ Cardinality({ i \in InFlight : runs[i].pc \in DuckBootPcs }) <= 1

\* C4: while the Pyodide bootstrap has not completed (in progress, or failed
\* part-way) isPyodideReady() is false and no caller holds the interpreter.
C4_ReadyOnlyWhenBooted ==
    (isPyodideReady \/ \E i \in InFlight : runs[i].pc = "py_run")
        => loadPromise = "resolved"

\* C5: once a backend's bootstrap has failed, no further bootstrap of it is
\* started and no caller is handed its connection / interpreter.
C5_FailedStaysFailed ==
    [][ /\ dbFailed =>
             \A i \in 1..MaxRuns :
                runs'[i].pc \in {"db_bundle", "tbl"} => runs'[i].pc = runs[i].pc
        /\ loadPromise = "rejected" =>
             /\ pyBoots' = pyBoots
             /\ \A i \in 1..MaxRuns : runs'[i].pc = "py_run" => runs[i].pc = "py_run"
      ]_vars

\* C6: executeSQL and executePython never reject: no exception of theirs reaches
\* the catch block of handleRunQuery.
C6_BackendsNeverReject == rejected \cap {"executeSQL", "executePython"} = {}

\* a python and an sql failure, each returned as a result
C6_Witness ==
    /\ lastResult # NoResult /\ ~lastResult.success
    /\ "initPyodide" \notin rejected

WellFormed(r) ==
    /\ (~r.success) <=> (r.error # Null)
    /\ r.error # Null => r.payload = {}

\* C7: in every result, success is false exactly when an error is present, and
\* a result with an error carries no payload (no data, output, plot, result).
C7_ErrorXorPayload ==
    /\ lastResult # NoResult => WellFormed(lastResult)
    /\ results # NoResult => WellFormed(results)

\* user code that printed, then raised
C7_Witness ==
    /\ results # NoResult
    /\ results.type = "python"
    /\ results.error = "exception after output"

\* C8: when the backend call of a run settles - a success, an error result or
\* an exception, that of the handler's own initPyodide() included - the panel
\* instance that started the run has isRunning false.
C8_RunReturnsToIdle ==
    [][ \A i \in 1..MaxRuns : (Settles(i) /\ Alive(runs[i])) => ~isRunning' ]_vars

\* the handler's own `await initPyodide()` threw and the panel is idle again
C8_Witness ==
    /\ "initPyodide" \in rejected
    /\ results # NoResult /\ results = lastResult /\ results.error # Null
    /\ ~isRunning
    /\ InFlight = {}

\* C9: the history is the most recent min(n, 50) successful runs since it was
\* last empty, newest first.
C9_HistoryIsRecentSuccesses ==
    history = SubSeq(succLog, 1, Min(Len(succLog), HistoryCap))

\* C10: closing and reopening the panel (or entering and leaving zen mode)
\* brings the history and the bookmarks back as they were, and a tab or
\* language switch leaves them alone.
C10_ListsSurvive ==
    [][ /\ (~Mounted(queryPanelOpen, isZenMode) /\ Mounted(queryPanelOpen', isZenMode'))
             => (history' = atClose.history /\ bookmarks' = atClose.bookmarks)
        /\ (/\ Mounted(queryPanelOpen, isZenMode)
            /\ Mounted(queryPanelOpen', isZenMode')
            /\ (activeTabId' # activeTabId \/ queryLanguage' # queryLanguage)
            /\ InFlight' = InFlight)
             => UNCHANGED <<history, bookmarks>>
      ]_vars

\* C11: selecting a bookmark (or a history item) restores it exactly: after the
\* handler and the commit it causes, the query text and the language are the
\* stored ones, whatever the language in force before.
C11_LoadRestoresExactly ==
    [][ /\ \A i \in 1..MaxBookmarks :
             loadFromBookmark(i) =>
                 (query' = bookmarks[i].query /\ queryLanguage' = bookmarks[i].language)
        /\ \A i \in 1..MaxRuns :
             loadFromHistory(i) =>
                 (query' = history[i].query /\ queryLanguage' = history[i].language)
      ]_vars

\* The default-query effect has to run in this step: the panel is mounted with
\* a file active after it, and it was just mounted or the active file or the
\* language changed.
Reloads ==
    /\ Mounted(queryPanelOpen', isZenMode') /\ activeTabId' # NoTab
    /\ \/ ~Mounted(queryPanelOpen, isZenMode)
       \/ activeTabId' # activeTabId
       \/ queryLanguage' # queryLanguage

\* C12: on each mode switch, active-file change or panel open with a file
\* active, the query becomes the queued query if one is pending (the one the
\* agent panel queues in this very step included), otherwise the default
\* template of the language and the file's extension, and the pending slot is
\* empty afterwards, so a queued query is loaded once.
C12_PendingElseDefault ==
    [][ Reloads =>
          /\ pendingQuery' = Null
          /\ \A l \in Languages, q \in AgentQueries : handleAction(l, q) => query' = q
          /\ (~ \E l \in Languages, q \in AgentQueries : handleAction(l, q)) =>
                query' = IF pendingQuery # Null THEN pendingQuery
                         ELSE DefaultQuery(queryLanguage', activeTabId')
      ]_vars

\* a queued query has been loaded into the editor and the slot emptied
C12_Witness ==
    /\ Mounted(queryPanelOpen, isZenMode)
    /\ pendingQuery = Null
    /\ query \in AgentQueries

\* C13: for every query whose FROM clause names the placeholder data or a quoted
\* file name, the FROM clause of the processed query names exactly the relation
\* createTempTable made for this run, with nothing appended.
C13_FromNamesTheRelation ==
    \A i \in InFlight :
        (runs[i].pc = "qry" /\ FromClause(runs[i].query).word # <<>>) =>
            processedQuery(runs[i].query, TableName(runs[i].table))
                = [quoted |-> FALSE, word |-> TableName(runs[i].table)]

\* C14: a failure of the DROP after a query that succeeded is swallowed: it is
\* never the error of a result, produced or displayed.
C14_DropFailureSwallowed ==
    /\ lastResult.error # "DROP failed"
    /\ results.error # "DROP failed"

\* C15: a content-ingestion failure is never surfaced: createTempTable returns
\* the name of a relation that exists, and no result carries its failure.
C15_IngestionNeverSurfaces ==
    /\ lastResult.error # "CREATE or INSERT failed"
    /\ results.error # "CREATE or INSERT failed"
    /\ \A i \in InFlight : runs[i].pc = "qry" => runs[i].table \in tables

\* C16: whatever the filter text and the sort column and direction, a file
\* the viewer exports holds the rows the viewer displays, over all pages and in
\* displayed order: the JSON text parses back to exactly those rows, and the
\* delimited text is the serialisation of exactly those rows.
C16_ExportIsDisplayed ==
    /\ viewer.exported.format = "json" =>
           JsonParse(viewer.exported.json) = viewer.exported.displayed
    /\ viewer.exported.format = "csv" =>
           viewer.exported.csv = exportToCSV(viewer.exported.displayed, Columns)

\* C17: once createTempTable has returned for a JSON file whose content is an
\* array of M objects, the relation exists and holds exactly min(M, 10000)
\* rows, the first elements of the array in order, and (for M > 0) its columns
\* are the keys of the first element.
C17_JsonRowsTruncated ==
    ingest.pc = "done" =>
        /\ ~ingest.threw
        /\ ingest.relation.exists
        /\ length(ingest.relation.rows) = Min(length(ingest.content), JsonRowLimit)
        /\ ingest.relation.rows = slice(ingest.content, JsonRowLimit)
        /\ length(ingest.content) > 0 => ingest.relation.columns = Head(ingest.content)[1]

\* C18: the name createTempTable chooses for a run's relation is the name of no
\* relation that exists in the engine at that moment (one left behind by an
\* earlier run included) and of no other run's relation, also when the runs
\* fall into the same clock tick.
C18_UniqueTableName ==
    [][\A i \in 1..MaxRuns :
          (runs[i].pc = "tbl" /\ runs'[i].pc # "tbl") =>
              /\ now' \notin tables
              /\ \A j \in 1..MaxRuns \ {i} : runs[j].pc = "qry" => runs[j].table # now']_vars

\* C19: once a call of executePython has returned, with a result or with an
\* error, the interpreter's sys.stdout is the stream it was before the first
\* call, and the reference the setup code keeps as the original stream is
\* still that stream, after any number of calls.
C19_StdoutRestored ==
    interp.calls > 0 =>
        /\ interp.stdout = Console
        /\ interp.original_stdout = Bound(Console)

\* C20: when the user code of a call evaluates to a number (a non-null
\* primitive) without raising, executePython returns success with that number
\* as the result, whatever the interpreter's global named result is bound to.
C20_ResultIsThisRunsValue ==
    (interp.calls > 0 /\ ~interp.ran.raises /\ interp.ran.evaluates \in {"1", "2"}) =>
        /\ interp.returned.success
        /\ interp.returned.result = [kind |-> "value", of |-> interp.ran.evaluates]

\* C21: two calls of executeSQL made in succession with the same query on the
\* unchanged content return the same rows and columns (both succeed with the
\* same rows, or neither returns rows), whatever earlier calls returned and
\* whatever relations they left in the engine.
C21_SameQuerySameRows ==
    (engine.calls >= 2 /\ engine.previous.query = engine.last.query) =>
        /\ engine.previous.success = engine.last.success
        /\ engine.previous.rows = engine.last.rows

\* C24: for the query DESCRIBE 'data.csv' the statement handed to the engine
\* is a DESCRIBE of the relation created for this call, not a SELECT.
C24_DescribeStaysDescribe ==
    (engine.last.query = "DESCRIBE 'data.csv'" /\ engine.last.sent # NoStatement) =>
        /\ engine.last.sent.verb = "DESCRIBE"
        /\ engine.last.sent.reads.word = TableName(engine.last.table)

\* C22: a run works on what was in force when it started.  The query text,
\* the mode and the file path it starts with are the panel's at that moment,
\* they stay the same while the run is in progress whatever the user edits or
\* switches, the backend that works on the run is the one of that mode, and
\* the HistoryItem a successful run adds records exactly them.
C22_RunUsesSnapshot ==
    [][\A i \in 1..MaxRuns :
          /\ (runs[i].pc = "none" /\ runs'[i].pc # "none") =>
                 /\ runs'[i].query = query
                 /\ runs'[i].language = queryLanguage
                 /\ runs'[i].tab = activeTabId
          /\ (runs[i].pc # "none" /\ runs'[i].pc # "none") =>
                 /\ runs'[i].query = runs[i].query
                 /\ runs'[i].language = runs[i].language
                 /\ runs'[i].tab = runs[i].tab
                 /\ (runs'[i].pc \in {"db_bundle", "db_boot", "db_json", "tbl", "qry"})
                        = (runs[i].language = "sql")
          /\ (runs[i].pc # "none" /\ runs'[i].pc = "none" /\ Len(succLog') > Len(succLog)) =>
                 /\ Head(succLog') = [query |-> runs[i].query, language |-> runs[i].language,
                                      filePath |-> runs[i].tab]
                 /\ Alive(runs[i]) => Head(history') = Head(succLog')]_vars

\* A successful run has finished after the user edited the query, or switched
\* the mode or the file, while it was in progress: its HistoryItem differs
\* from what the panel holds now.
C22_Witness ==
    /\ history # <<>>
    /\ \/ Head(history).query # query
       \/ Head(history).language # queryLanguage
       \/ Head(history).filePath # activeTabId

\* C23: when the user code of a run has called save(x), the callback was
\* invoked once, with x itself for a string and with its JSON text otherwise,
\* and the tabs are as before except that the tab which was active when that
\* run started has the saved text as its content and is dirty.
C23_SaveUpdatesOwnTab ==
    LET s == scripting.lastSave IN
    s.caller # 0 =>
        LET own == scripting.calls[s.caller].tab IN
        /\ s.invoked = << IF s.arg.type = "string"
                          THEN [format |-> "string", of |-> s.arg.value]
                          ELSE [format |-> "JSON.stringify", of |-> s.arg.value] >>
        /\ scripting.contents = [s.before EXCEPT ![own] = s.invoked[1]]
        /\ scripting.dirty = s.dirtyBefore \cup {own}

\* C25: what a run's user code finds when it starts executing: content,
\* file_path, file_ext and data are those of this run's file and content (data
\* loaded from that content, or None), and the stdout buffer is empty.
C25_FreshContext ==
    \A i \in 1..MaxRuns :
        scripting.calls[i].pc = "done" =>
            LET call == scripting.calls[i] IN
            /\ call.seen.content = call.content
            /\ call.seen.file_path = call.tab
            /\ call.seen.file_ext = getFileExtension(call.tab)
            /\ call.seen.data = AutoLoad(getFileExtension(call.tab), call.content)
            /\ call.seen.buffer = <<>>

\* C26: a query the agent panel hands over while a file is active is loaded
\* into the query editor without a further step of the user.  The effects of
\* a step run in the commit of that step, and no step the page takes by
\* itself runs the default-query effect: the query is in the editor when the
\* hand-over step is over.
C26_HandedQueryIsLoaded ==
    [][\A l \in Languages, q \in AgentQueries :
          (handleAction(l, q) /\ activeTabId # NoTab) => query' = q]_vars

\* C27: when a queued query is consumed into the editor, the mode is the
\* language the query was handed over with.
C27_ConsumedInItsLanguage ==
    [][(pendingQuery' = Null /\ query' \in AgentQueries /\ query' # query)
          => queryLanguage' = LanguageOf(query')]_vars

\* C28: the result on display belongs to the active file and the mode: when a
\* run finishes that was started under another file or mode than the present
\* ones, no result is displayed afterwards.
C28_NoStaleResult ==
    [][\A i \in 1..MaxRuns :
          (/\ runs[i].pc # "none" /\ runs'[i].pc = "none"
           /\ Mounted(queryPanelOpen', isZenMode')
           /\ (runs[i].tab # activeTabId \/ runs[i].language # queryLanguage))
          => results' = NoResult]_vars

\* C29: after the Pyodide bootstrap has failed, once nothing is in progress
\* any more (no run in flight, the init effect's promise handled), the loading
\* indicator is off: the editor is not left under the loading overlay.
C29_SettlesAfterFailure ==
    (/\ loadPromise = "rejected"
     /\ Mounted(queryPanelOpen, isZenMode)
     /\ InFlight = {}
     /\ ~effectWaiting)
    => ~pyodideLoading

\* C30: no SQL run is started on a file whose extension is not one of csv,
\* tsv, json, jsonl, parquet, through the Run button or through Ctrl/Cmd+Enter.
C30_SqlOnlyOnSupportedFiles ==
    \A i \in 1..MaxRuns :
        (runs[i].pc # "none" /\ runs[i].language = "sql") =>
            getFileExtension(runs[i].tab) \in {"csv", "tsv", "json", "jsonl", "parquet"}


====
